---- MODULE Spec2Model ----
(***************************************************************************)
(* Conductor Dashboard: the index / metadata / plan parsers, the merge     *)
(* engine of Track, the reload classifier and the load / reload            *)
(* orchestration, as state machines over bounded inputs.                   *)
(*                                                                         *)
(* A backtick character is written ^ in the vocabularies.                  *)
(* Option<T> is modelled as a sequence: <<>> is None, <<v>> is Some(v).    *)
(* Strings are drawn from small vocabularies; the string functions of the  *)
(* source (trim, to_ascii_lowercase, strip_prefix, contains) are tables    *)
(* over those vocabularies.                                                *)
(***************************************************************************)
EXTENDS Integers, Sequences, FiniteSets, TLC

VARIABLES
    pc,           \* which operation of the running specification comes next
    plan_doc,     \* content of a plan.md: sequence of block items
    phases_out,   \* Vec<PlanPhase> returned by parse_plan_content
    track,        \* one Track under the merge engine
    call,         \* the last merge-engine call and its argument
    index_doc,    \* content of a tracks.md: sequence of lines
    index_out,    \* BTreeMap<TrackId, Track> returned by parse_index
    fs_events,    \* paths of one debounced batch of filesystem events
    batch,        \* Event::FilesChanged payload delivered to the app, or None
    scope,        \* ReloadScope returned by classify_changes, or None
    disk,         \* the conductor directory: tracks.md and the track directories
    tracks,       \* App.tracks
    error_message,\* App.error_message (the text only), or None
    last,         \* what happened last: "new", "edit" of a file, full "load",
                  \* "load_failed", or partial "reload"
    meta_out,     \* Result<Option<TrackMetadata>> returned by parse_metadata, or None
    load_map,     \* the local map of load_all_tracks, while a load runs
    load_steps,   \* the steps load_all_tracks has still to take, in order
    load_log      \* the steps load_all_tracks has taken, in order

planVars == <<plan_doc, phases_out>>

mergeVars == <<track, call>>

indexVars == <<index_doc, index_out>>

watchVars == <<fs_events, batch, scope>>

appVars == <<disk, tracks, error_message, last>>

metaVars == <<meta_out>>

stepVars == <<load_map, load_steps, load_log>>

vars == <<pc, planVars, mergeVars, indexVars, watchVars, appVars, metaVars, stepVars>>

\* ------------------------------------------------------------------------
\* Bounds
\* ------------------------------------------------------------------------
MaxDocLen == 5

\* ------------------------------------------------------------------------
\* Small helpers
\* ------------------------------------------------------------------------
SeqsUpTo(S, n) == UNION {[1..k -> S] : k \in 0..n}

None == <<>>

Some(v) == <<v>>

NoTrack == [id |-> ""]

\* again: the call before it was the same operation (for merge_metadata: with
\* the same argument)
NoCall == [op |-> "none", arg |-> <<>>, again |-> FALSE]

\* the variables a specification does not use keep these values
PlanIdle == plan_doc = <<>> /\ phases_out = <<>>

MergeIdle == track = NoTrack /\ call = NoCall

IndexIdle == index_doc = <<>> /\ index_out = <<>>

WatchIdle == fs_events = <<>> /\ batch = None /\ scope = None

AppIdle == disk = <<>> /\ tracks = <<>> /\ error_message = None /\ last = ""

MetaIdle == meta_out = None

StepIdle == load_map = <<>> /\ load_steps = <<>> /\ load_log = <<>>

\* ------------------------------------------------------------------------
\* model/enums.rs
\* ------------------------------------------------------------------------
Status == {"New", "InProgress", "Blocked", "Complete"}

Priority == {"Critical", "High", "Medium", "Low"}

TrackType == {"Feature", "Bug", "Migration", "Refactor", "Other"}

CheckboxStatus == {"Unchecked", "InProgress", "Checked"}

PhaseStatus == {"Pending", "Active", "Complete", "Blocked"}

\* ------------------------------------------------------------------------
\* parser/plan.rs
\* ------------------------------------------------------------------------
\* A plan.md as the markdown walker sees it: headings (level, text) and
\* task-list items (checkbox, text).
Heading(level, text) == [kind |-> "heading", level |-> level, text |-> text, done |-> FALSE]

TaskItem(done, text) == [kind |-> "task", level |-> 0, text |-> text, done |-> done]

PlanItems ==
    { Heading(2, "Phase 1"), Heading(3, "phase 2"), Heading(2, "Notes"),
      Heading(1, "Phase 0"),
      TaskItem(TRUE, "Task: a"), TaskItem(FALSE, "b"), TaskItem(FALSE, "Task:") }

PlanDocs == SeqsUpTo(PlanItems, MaxDocLen)

\* lower.contains("phase") on the heading vocabulary
is_phase_heading(name) == name \in {"Phase 1", "phase 2", "Phase 0"}

\* trim, strip_prefix("Task:"), trim on the task-text vocabulary
clean_task_text(text) ==
    CASE text = "Task: a" -> "a"
      [] text = "Task:"   -> ""
      [] OTHER            -> text

PlanPhase(name, status, tasks) == [name |-> name, status |-> status, tasks |-> tasks]

PlanTask(text, done) == [text |-> text, done |-> done]

\* flush_task for a task item that is open (in_task_item = true)
flush_task(phases, task_text, task_done) ==
    LET text == clean_task_text(task_text) IN
    IF text = "" THEN phases
    ELSE LET ps == IF phases = <<>>
                   THEN <<PlanPhase("Tasks", "Pending", <<>>)>>
                   ELSE phases
             n  == Len(ps)
         IN [ps EXCEPT ![n].tasks = Append(@, PlanTask(text, task_done))]

\* one step of the event loop of parse_plan_content
plan_event(phases, item) ==
    IF item.kind = "heading"
    THEN IF item.level \in {2, 3} /\ is_phase_heading(item.text)
         THEN Append(phases, PlanPhase(item.text, "Pending", <<>>))
         ELSE phases
    ELSE flush_task(phases, item.text, item.done)

RECURSIVE collect_phases(_, _, _)
collect_phases(doc, i, phases) ==
    IF i > Len(doc) THEN phases
    ELSE collect_phases(doc, i + 1, plan_event(phases, doc[i]))

all_done(phase) == \A k \in 1..Len(phase.tasks) : phase.tasks[k].done

any_done(phase) == \E k \in 1..Len(phase.tasks) : phase.tasks[k].done

\* loop_status making Active only a phase that has progress
loop_status_progress_only(phase, found_active) ==
    IF phase.tasks = <<>> THEN "Pending"
    ELSE IF all_done(phase) THEN "Complete"
    ELSE IF any_done(phase) THEN "Active"
    ELSE "Pending"

\* the status the loop body of compute_phase_statuses gives one phase
loop_status(phase, found_active) ==
    IF phase.tasks = <<>> THEN "Pending"
    ELSE IF all_done(phase) THEN "Complete"
    ELSE IF any_done(phase) \/ ~found_active THEN "Active"
    ELSE "Pending"

\* the for loop of compute_phase_statuses: result and found_active
RECURSIVE status_loop(_, _, _)
status_loop(phases, i, found_active) ==
    IF i > Len(phases) THEN [phases |-> phases, found_active |-> found_active]
    ELSE LET st == loop_status(phases[i], found_active) IN
         status_loop([phases EXCEPT ![i].status = st], i + 1,
                     found_active \/ (st = "Active"))

\* compute_phase_statuses whose fallback takes the first Pending phase, with
\* or without tasks
compute_phase_statuses_any_pending(phases) ==
    LET r  == status_loop(phases, 1, FALSE)
        ps == r.phases
        pending == {k \in 1..Len(ps) : ps[k].status = "Pending"}
    IN IF ~r.found_active /\ pending # {}
       THEN LET first == CHOOSE k \in pending : \A j \in pending : k <= j
            IN [ps EXCEPT ![first].status = "Active"]
       ELSE ps

compute_phase_statuses(phases) ==
    LET r  == status_loop(phases, 1, FALSE)
        ps == r.phases
        pending == {k \in 1..Len(ps) : ps[k].status = "Pending" /\ ps[k].tasks # <<>>}
    IN IF ~r.found_active /\ pending # {}
       THEN LET first == CHOOSE k \in pending : \A j \in pending : k <= j
            IN [ps EXCEPT ![first].status = "Active"]
       ELSE ps

parse_plan_content(doc) == compute_phase_statuses(collect_phases(doc, 1, <<>>))

\* ------------------------------------------------------------------------
\* model/track.rs
\* ------------------------------------------------------------------------
\* Track::default()
DefaultTrack ==
    [ id |-> "", title |-> "", status |-> "New", priority |-> "Medium",
      track_type |-> "Other", phase |-> "", created_at |-> None,
      updated_at |-> None, dependencies |-> <<>>, tasks_total |-> 0,
      tasks_completed |-> 0, checkbox_status |-> "Unchecked",
      plan_phases |-> <<>>, tags |-> <<>>, branch |-> None,
      description |-> None ]

\* TrackMetadata::default()
DefaultMetadata ==
    [ status |-> "New", priority |-> "Medium", track_type |-> "Other",
      created_at |-> None, updated_at |-> None, dependencies |-> <<>>,
      tags |-> <<>>, branch |-> None, description |-> None ]

\* Track::progress_percent, as the integer part of the f32 result
progress_percent(t) ==
    IF t.tasks_total = 0 THEN 0
    ELSE (t.tasks_completed * 100) \div t.tasks_total

\* merge_metadata with the status assigned unconditionally
merge_metadata_clobber_status(t, meta) ==
    [ t EXCEPT
        !.status       = meta.status,
        !.priority     = IF meta.priority # "Medium" THEN meta.priority ELSE @,
        !.track_type   = IF meta.track_type # "Other" THEN meta.track_type ELSE @,
        !.created_at   = IF meta.created_at # None THEN meta.created_at ELSE @,
        !.updated_at   = IF meta.updated_at # None THEN meta.updated_at ELSE @,
        !.dependencies = IF meta.dependencies # <<>> THEN meta.dependencies ELSE @,
        !.tags         = IF meta.tags # <<>> THEN meta.tags ELSE @,
        !.branch       = IF meta.branch # None THEN meta.branch ELSE @,
        !.description  = IF meta.description # None THEN meta.description ELSE @ ]

\* merge_metadata with the dependency list extended instead of replaced
merge_metadata_union_deps(t, meta) ==
    [ t EXCEPT
        !.status       = IF meta.status # "New" THEN meta.status ELSE @,
        !.priority     = IF meta.priority # "Medium" THEN meta.priority ELSE @,
        !.track_type   = IF meta.track_type # "Other" THEN meta.track_type ELSE @,
        !.created_at   = IF meta.created_at # None THEN meta.created_at ELSE @,
        !.updated_at   = IF meta.updated_at # None THEN meta.updated_at ELSE @,
        !.dependencies = @ \o meta.dependencies,
        !.tags         = IF meta.tags # <<>> THEN meta.tags ELSE @,
        !.branch       = IF meta.branch # None THEN meta.branch ELSE @,
        !.description  = IF meta.description # None THEN meta.description ELSE @ ]

\* a merge that appends the metadata dependencies to the Track's
merge_metadata_append_deps(t, meta) ==
    [ t EXCEPT
        !.status       = IF meta.status # "New" THEN meta.status ELSE @,
        !.priority     = IF meta.priority # "Medium" THEN meta.priority ELSE @,
        !.track_type   = IF meta.track_type # "Other" THEN meta.track_type ELSE @,
        !.created_at   = IF meta.created_at # None THEN meta.created_at ELSE @,
        !.updated_at   = IF meta.updated_at # None THEN meta.updated_at ELSE @,
        !.dependencies = @ \o meta.dependencies,
        !.tags         = IF meta.tags # <<>> THEN meta.tags ELSE @,
        !.branch       = IF meta.branch # None THEN meta.branch ELSE @,
        !.description  = IF meta.description # None THEN meta.description ELSE @ ]

merge_metadata(t, meta) ==
    [ t EXCEPT
        !.status       = IF meta.status # "New" THEN meta.status ELSE @,
        !.priority     = IF meta.priority # "Medium" THEN meta.priority ELSE @,
        !.track_type   = IF meta.track_type # "Other" THEN meta.track_type ELSE @,
        !.created_at   = IF meta.created_at # None THEN meta.created_at ELSE @,
        !.updated_at   = IF meta.updated_at # None THEN meta.updated_at ELSE @,
        !.dependencies = IF meta.dependencies # <<>> THEN meta.dependencies ELSE @,
        !.tags         = IF meta.tags # <<>> THEN meta.tags ELSE @,
        !.branch       = IF meta.branch # None THEN meta.branch ELSE @,
        !.description  = IF meta.description # None THEN meta.description ELSE @ ]

complete_phase(phase) ==
    [ phase EXCEPT
        !.tasks  = [k \in 1..Len(phase.tasks) |-> [phase.tasks[k] EXCEPT !.done = TRUE]],
        !.status = "Complete" ]

mark_all_tasks_complete(t) ==
    [ t EXCEPT
        !.plan_phases     = [k \in 1..Len(t.plan_phases) |-> complete_phase(t.plan_phases[k])],
        !.tasks_completed = t.tasks_total ]

\* the fold of merge_plan: (total, completed) over phases[i..]
RECURSIVE fold_counts(_, _, _, _)
fold_counts(phases, i, t, c) ==
    IF i > Len(phases) THEN <<t, c>>
    ELSE LET phase_total == Len(phases[i].tasks)
             phase_done  == Cardinality({k \in 1..Len(phases[i].tasks) : phases[i].tasks[k].done})
         IN fold_counts(phases, i + 1, t + phase_total, c + phase_done)

\* current_phase looking for an Active phase only
current_phase_active_only(phases, old) ==
    LET open == {k \in 1..Len(phases) : phases[k].status = "Active"} IN
    IF open # {} THEN phases[CHOOSE k \in open : \A j \in open : k <= j].name
    ELSE IF phases # <<>> THEN phases[Len(phases)].name
    ELSE old

\* name of the phase merge_plan shows as current, or the old one
current_phase(phases, old) ==
    LET open == {k \in 1..Len(phases) : phases[k].status \in {"Active", "Pending"}} IN
    IF open # {} THEN phases[CHOOSE k \in open : \A j \in open : k <= j].name
    ELSE IF phases # <<>> THEN phases[Len(phases)].name
    ELSE old

\* merge_plan adding to the prior counters
merge_plan_accumulate(t, phases) ==
    LET tc == fold_counts(phases, 1, t.tasks_total, t.tasks_completed) IN
    [ t EXCEPT
        !.tasks_total     = tc[1],
        !.tasks_completed = tc[2],
        !.plan_phases     = phases,
        !.phase           = current_phase(phases, @) ]

\* merge_plan with the two counters exchanged
merge_plan_swapped(t, phases) ==
    LET tc == fold_counts(phases, 1, 0, 0) IN
    [ t EXCEPT
        !.tasks_total     = tc[2],
        !.tasks_completed = tc[1],
        !.plan_phases     = phases,
        !.phase           = current_phase(phases, @) ]

\* a merge that promotes the status of a Track whose tasks are all done
merge_plan_promote_status(t, phases) ==
    LET tc == fold_counts(phases, 1, 0, 0) IN
    [ t EXCEPT
        !.tasks_total     = tc[1],
        !.tasks_completed = tc[2],
        !.plan_phases     = phases,
        !.phase           = current_phase(phases, @),
        !.status          = IF tc[1] > 0 /\ tc[2] = tc[1] THEN "Complete" ELSE @ ]

merge_plan(t, phases) ==
    LET tc == fold_counts(phases, 1, 0, 0) IN
    [ t EXCEPT
        !.tasks_total     = tc[1],
        !.tasks_completed = tc[2],
        !.plan_phases     = phases,
        !.phase           = current_phase(phases, @) ]

\* ------------------------------------------------------------------------
\* model/enums.rs: lenient coercion
\* ------------------------------------------------------------------------
\* s.to_ascii_lowercase().trim() on the vocabulary of field values
ascii_lower_trim(s) ==
    CASE s = "Completed"              -> "completed"
      [] s = "Completed (2026-02-06)" -> "completed (2026-02-06)"
      [] s = " In_Progress "          -> "in_progress"
      [] s = "Not_started"            -> "not_started"
      [] s = "DONE"                   -> "done"
      [] s = "High"                   -> "high"
      [] s = "Feature"                -> "feature"
      [] OTHER                        -> s

Status_from_str_loose(s) ==
    LET lower == ascii_lower_trim(s) IN
    CASE lower \in {"complete", "completed", "done"} -> "Complete"
      [] lower \in {"in_progress", "in-progress", "active", "implementation"} -> "InProgress"
      [] lower \in {"blocked", "on_hold"} -> "Blocked"
      [] OTHER -> "New"

Priority_from_str_loose(s) ==
    LET lower == ascii_lower_trim(s) IN
    CASE lower = "critical" -> "Critical"
      [] lower = "high" -> "High"
      [] lower \in {"medium", "med"} -> "Medium"
      [] lower = "low" -> "Low"
      [] OTHER -> "Medium"

\* CheckboxStatus::to_status
to_status(checkbox) ==
    CASE checkbox = "Unchecked"  -> "New"
      [] checkbox = "InProgress" -> "InProgress"
      [] checkbox = "Checked"    -> "Complete"

\* ------------------------------------------------------------------------
\* parser/index.rs
\* ------------------------------------------------------------------------
RECURSIVE JoinWith(_, _)
JoinWith(parts, sep) ==
    IF parts = <<>> THEN ""
    ELSE IF Len(parts) = 1 THEN parts[1]
    ELSE parts[1] \o sep \o JoinWith(Tail(parts), sep)

IndexEntry(title, checkbox) ==
    [ id |-> "", title |-> title, checkbox |-> checkbox, status |-> "New",
      priority |-> "Medium", tags |-> <<>>, branch |-> None,
      dependencies |-> <<>> ]

\* A heading text is its sequence of whitespace-separated tokens.
parse_h2_heading(toks) ==
    LET marks == {k \in 1..Len(toks) : toks[k] = "Track:"} IN
    IF marks = {} THEN None
    ELSE LET track_marker == CHOOSE k \in marks : \A j \in marks : k <= j
             checkbox == IF toks # <<>> /\ toks[1] \in {"[x]", "[X]"} THEN "Checked"
                         ELSE IF toks # <<>> /\ toks[1] \in {"[~]", "[-]"} THEN "InProgress"
                         ELSE "Unchecked"
             after == SubSeq(toks, track_marker + 1, Len(toks))
             glyphs == {k \in 1..Len(after) : after[k] = "U+2705"}
             cut == IF glyphs = {} THEN Len(after)
                    ELSE (CHOOSE k \in glyphs : \A j \in glyphs : k <= j) - 1
             title == JoinWith(SubSeq(after, 1, cut), " ")
         IN IF title = "" THEN None ELSE Some(IndexEntry(title, checkbox))

\* A link destination is its sequence of '/'-separated segments.
RECURSIVE trim_end_slashes(_)
trim_end_slashes(url) ==
    IF Len(url) > 1 /\ url[Len(url)] = ""
    THEN trim_end_slashes(SubSeq(url, 1, Len(url) - 1))
    ELSE url

extract_track_id_from_link(dest) ==
    LET url == trim_end_slashes(dest)
        hits == {k \in 2..(Len(url) - 1) : url[k] = "tracks"}
        pos == CHOOSE k \in hits : \A j \in hits : j <= k
        id == JoinWith(SubSeq(url, pos + 1, Len(url)), "/")
    IN IF hits # {} /\ id # "" THEN Some(id)
       ELSE Some(url[Len(url)])

\* trim_matches(backtick) on the branch vocabulary
trim_backticks(s) ==
    CASE s = "^feat/x^" -> "feat/x"
      [] s = "^^"       -> ""
      [] OTHER          -> s

\* trim, trim_matches(backtick), trim_matches(open paren), split(close paren).next(), trim
clean_dependency(d) ==
    CASE d = "^b^"       -> "b"
      [] d = "(c) later" -> "c"
      [] OTHER           -> d

NonEmpty(parts) == SelectSeq(parts, LAMBDA x : x # "")

\* A field value is its sequence of comma-separated, trimmed items.
apply_field(entry, key, parts) ==
    LET value == JoinWith(parts, ", ") IN
    CASE key = "Priority" -> [entry EXCEPT !.priority = Priority_from_str_loose(value)]
      [] key = "Status"   -> [entry EXCEPT !.status = Status_from_str_loose(value)]
      [] key = "Tags"     -> [entry EXCEPT !.tags = NonEmpty(parts)]
      [] key = "Branch"   -> IF trim_backticks(value) # ""
                             THEN [entry EXCEPT !.branch = Some(trim_backticks(value))]
                             ELSE entry
      [] key \in {"Dependencies", "Depends on"} ->
             [entry EXCEPT !.dependencies =
                 NonEmpty([k \in 1..Len(parts) |-> clean_dependency(parts[k])])]
      [] OTHER -> entry

\* strong_text.trim_end_matches(':').trim()
trim_key(s) ==
    CASE s = "Status:" -> "Status"
      [] OTHER         -> s

\* Events of the markdown walker that parse_index_content reacts to.
EvH2(toks) == [ev |-> "H2", toks |-> toks, key |-> "", colon |-> FALSE, parts |-> <<>>, dest |-> <<>>]

EvStrong(key) == [ev |-> "Strong", toks |-> <<>>, key |-> key, colon |-> FALSE, parts |-> <<>>, dest |-> <<>>]

EvText(colon, parts) == [ev |-> "Text", toks |-> <<>>, key |-> "", colon |-> colon, parts |-> parts, dest |-> <<>>]

EvLink(dest) == [ev |-> "Link", toks |-> <<>>, key |-> "", colon |-> FALSE, parts |-> <<>>, dest |-> dest]

EvPlain(ev) == [ev |-> ev, toks |-> <<>>, key |-> "", colon |-> FALSE, parts |-> <<>>, dest |-> <<>>]

\* the locals of parse_index_content before the first event
IndexStart ==
    [ entries |-> <<>>, current_entry |-> None, in_paragraph |-> FALSE,
      field_key |-> None ]

\* Event::Rule closing the current entry
index_rule_closes(st) ==
    [st EXCEPT
        !.entries = IF st.current_entry # None
                    THEN Append(@, st.current_entry[1]) ELSE @,
        !.current_entry = None]

\* the Event::Rule arm of parse_index_content: nothing happens
index_rule(st) == st

\* one iteration of the event loop of parse_index_content
index_event(st, e) ==
    CASE e.ev = "H2" ->
            [st EXCEPT
                !.entries = IF st.current_entry # None
                            THEN Append(@, st.current_entry[1]) ELSE @,
                !.current_entry = parse_h2_heading(e.toks)]
      [] e.ev = "Strong" ->
            IF st.current_entry # None
            THEN [st EXCEPT !.field_key = Some(trim_key(e.key))]
            ELSE st
      [] e.ev = "Rule" -> index_rule(st)
      [] e.ev = "ParaStart" -> [st EXCEPT !.in_paragraph = TRUE]
      [] e.ev = "ParaEnd" -> [st EXCEPT !.in_paragraph = FALSE, !.field_key = None]
      [] e.ev = "Link" ->
            IF st.current_entry # None /\ st.current_entry[1].id = ""
            THEN [st EXCEPT !.current_entry[1].id = extract_track_id_from_link(e.dest)[1]]
            ELSE st
      [] e.ev = "Text" ->
            IF st.current_entry # None /\ st.in_paragraph /\ st.field_key # None
               /\ (e.colon \/ JoinWith(e.parts, ", ") # "")
            THEN [st EXCEPT
                    !.current_entry[1] = apply_field(@, st.field_key[1], e.parts),
                    !.field_key = None]
            ELSE st
      [] OTHER -> st

RECURSIVE index_loop(_, _, _)
index_loop(events, i, st) ==
    IF i > Len(events) THEN st
    ELSE index_loop(events, i + 1, index_event(st, events[i]))

parse_index_content(events) ==
    LET st == index_loop(events, 1, IndexStart) IN
    IF st.current_entry # None THEN Append(st.entries, st.current_entry[1])
    ELSE st.entries

\* index_track with the checkbox taking precedence over the Status field
index_track_checkbox_first(entry) ==
    [ DefaultTrack EXCEPT
        !.id = entry.id,
        !.title = entry.title,
        !.status = IF to_status(entry.checkbox) # "New" THEN to_status(entry.checkbox)
                   ELSE entry.status,
        !.priority = entry.priority,
        !.checkbox_status = entry.checkbox,
        !.tags = entry.tags,
        !.branch = entry.branch,
        !.dependencies = entry.dependencies ]

\* the Track that parse_index builds from one entry
index_track(entry) ==
    [ DefaultTrack EXCEPT
        !.id = entry.id,
        !.title = entry.title,
        !.status = IF entry.status # "New" THEN entry.status ELSE to_status(entry.checkbox),
        !.priority = entry.priority,
        !.checkbox_status = entry.checkbox,
        !.tags = entry.tags,
        !.branch = entry.branch,
        !.dependencies = entry.dependencies ]

\* an insert that keeps the value already stored under the key
map_insert_keep_first(m, k, v) == m @@ (k :> v)

\* BTreeMap::insert
map_insert(m, k, v) == (k :> v) @@ m

RECURSIVE insert_entries(_, _, _)
insert_entries(entries, i, map) ==
    IF i > Len(entries) THEN map
    ELSE insert_entries(entries, i + 1,
                        map_insert(map, entries[i].id, index_track(entries[i])))

\* parse_index on a readable tracks.md
parse_index(events) == insert_entries(parse_index_content(events), 1, <<>>)

\* ------------------------------------------------------------------------
\* model/cache.rs and event.rs
\* ------------------------------------------------------------------------
\* A path is its sequence of components; file_name is the last one.
file_name(path) == IF path = <<>> THEN None ELSE Some(path[Len(path)])

parent(path) == IF path = <<>> THEN None ELSE Some(SubSeq(path, 1, Len(path) - 1))

\* extract_track_id_from_path without the check of the grandparent
extract_track_id_any_parent(path) ==
    IF parent(path) = None \/ file_name(parent(path)[1]) = None THEN None
    ELSE file_name(parent(path)[1])

extract_track_id_from_path(path) ==
    IF parent(path) = None THEN None
    ELSE LET dir == parent(path)[1] IN
         IF file_name(dir) = None THEN None
         ELSE LET grandparent == parent(dir)[1] IN
              IF file_name(grandparent) = None THEN None
              ELSE IF file_name(grandparent)[1] = "tracks" THEN file_name(dir)
              ELSE None

is_conductor_file(path) ==
    /\ file_name(path) # None
    /\ file_name(path)[1] \in {"tracks.md", "metadata.json", "meta.yaml", "plan.md", "spec.md"}

Contains(seq, x) == \E k \in 1..Len(seq) : seq[k] = x

\* one iteration of the loop of classify_changes
classify_path(st, path) ==
    IF file_name(path) = None THEN st
    ELSE LET name == file_name(path)[1] IN
         CASE name = "tracks.md" -> [st EXCEPT !.full_reload = TRUE]
           [] name \in {"metadata.json", "meta.yaml", "plan.md", "spec.md"} ->
                LET track_id == extract_track_id_from_path(path) IN
                IF track_id # None /\ ~Contains(st.changed_tracks, track_id[1])
                THEN [st EXCEPT !.changed_tracks = Append(@, track_id[1])]
                ELSE st
           [] OTHER -> st

RECURSIVE classify_loop(_, _, _)
classify_loop(paths, i, st) ==
    IF i > Len(paths) THEN st
    ELSE classify_loop(paths, i + 1, classify_path(st, paths[i]))

ScopeFull == [kind |-> "Full", ids |-> <<>>]

ScopeTracks(ids) == [kind |-> "Tracks", ids |-> ids]

\* classify_changes returning the partial list whenever it is not empty
classify_changes_partial_first(paths) ==
    LET st == classify_loop(paths, 1, [changed_tracks |-> <<>>, full_reload |-> FALSE]) IN
    IF st.full_reload /\ st.changed_tracks = <<>> THEN ScopeFull
    ELSE ScopeTracks(st.changed_tracks)

classify_changes(paths) ==
    LET st == classify_loop(paths, 1, [changed_tracks |-> <<>>, full_reload |-> FALSE]) IN
    IF st.full_reload THEN ScopeFull ELSE ScopeTracks(st.changed_tracks)

\* the debouncer callback forwarding every path of the batch
debounced_paths_unfiltered(events) == events

\* the debouncer callback of run_file_watcher: the paths it forwards
debounced_paths(events) == SelectSeq(events, is_conductor_file)

\* ------------------------------------------------------------------------
\* tracks.md as the markdown walker sees it: lines, and the events they give
\* ------------------------------------------------------------------------
LineH2(toks) == [kind |-> "h2", toks |-> toks, key |-> "", colon |-> FALSE, parts |-> <<>>, dest |-> <<>>]

LineField(key, colon, parts) == [kind |-> "field", toks |-> <<>>, key |-> key, colon |-> colon, parts |-> parts, dest |-> <<>>]

LineLink(dest) == [kind |-> "link", toks |-> <<>>, key |-> "", colon |-> FALSE, parts |-> <<>>, dest |-> dest]

LineRule == [kind |-> "rule", toks |-> <<>>, key |-> "", colon |-> FALSE, parts |-> <<>>, dest |-> <<>>]

InParagraph(line) == line.kind \in {"field", "link"}

line_events(line) ==
    CASE line.kind = "h2"    -> <<EvH2(line.toks)>>
      [] line.kind = "field" -> <<EvStrong(line.key), EvText(line.colon, line.parts)>>
      [] line.kind = "link"  -> <<EvLink(line.dest), EvText(FALSE, <<JoinWith(line.dest, "/")>>)>>
      [] OTHER               -> <<EvPlain("Rule")>>

\* consecutive field and link lines form one paragraph
RECURSIVE markdown_events(_, _)
markdown_events(doc, i) ==
    IF i > Len(doc) THEN <<>>
    ELSE LET line  == doc[i]
             open  == InParagraph(line) /\ (i = 1 \/ ~InParagraph(doc[i - 1]))
             close == InParagraph(line) /\ (i = Len(doc) \/ ~InParagraph(doc[i + 1]))
         IN (IF open THEN <<EvPlain("ParaStart")>> ELSE <<>>)
            \o line_events(line)
            \o (IF close THEN <<EvPlain("ParaEnd")>> ELSE <<>>)
            \o markdown_events(doc, i + 1)

Range(f) == {f[x] : x \in DOMAIN f}

\* ------------------------------------------------------------------------
\* parser/metadata.rs
\* ------------------------------------------------------------------------
TrackType_from_str_loose(s) ==
    LET lower == ascii_lower_trim(s) IN
    CASE lower \in {"feature", "feat"} -> "Feature"
      [] lower \in {"bug", "bugfix", "fix"} -> "Bug"
      [] lower \in {"migration", "migrate"} -> "Migration"
      [] lower \in {"refactor", "refactoring"} -> "Refactor"
      [] OTHER -> "Other"

\* parse_datetime on the vocabulary of date strings; a timestamp is the
\* number of the day
parse_datetime(s) ==
    CASE s = "2026-01-15T10:00:00Z" -> Some(15)
      [] s = "(2026-02-06)"         -> Some(37)
      [] s = "2026-02-01"           -> Some(32)
      [] OTHER                      -> None

\* Option::map / and_then / or
OptMap(Op(_), o) == IF o = None THEN None ELSE Some(Op(o[1]))

OptAndThen(Op(_), o) == IF o = None THEN None ELSE Op(o[1])

OptOr(a, b) == IF a # None THEN a ELSE b

OptOrDefault(o, d) == IF o = None THEN d ELSE o[1]

\* RawJsonMetadata with every field absent
EmptyRaw ==
    [ status |-> None, priority |-> None, track_type |-> None,
      created_at |-> None, updated_at |-> None, start_date |-> None,
      end_date |-> None, created |-> None, completed |-> None,
      dependencies |-> <<>>, tags |-> <<>>, branch |-> None,
      description |-> None ]

\* the conversion at the end of parse_json_metadata; the enum fields are
\* coerced by their Deserialize impls
json_to_metadata(raw) ==
    [ status |-> OptOrDefault(OptMap(Status_from_str_loose, raw.status), "New"),
      priority |-> OptOrDefault(OptMap(Priority_from_str_loose, raw.priority), "Medium"),
      track_type |-> OptOrDefault(OptMap(TrackType_from_str_loose, raw.track_type), "Other"),
      created_at |-> OptAndThen(parse_datetime, OptOr(raw.created_at, raw.start_date)),
      updated_at |-> OptAndThen(parse_datetime, OptOr(raw.updated_at, raw.end_date)),
      dependencies |-> raw.dependencies,
      tags |-> raw.tags,
      branch |-> raw.branch,
      description |-> raw.description ]

\* the conversion at the end of parse_yaml_metadata
yaml_to_metadata(raw) ==
    [ status |-> OptOrDefault(OptMap(Status_from_str_loose, raw.status), "New"),
      priority |-> OptOrDefault(OptMap(Priority_from_str_loose, raw.priority), "Medium"),
      track_type |-> "Other",
      created_at |-> OptAndThen(parse_datetime, raw.created),
      updated_at |-> OptAndThen(parse_datetime, raw.completed),
      dependencies |-> <<>>,
      tags |-> raw.tags,
      branch |-> raw.branch,
      description |-> None ]

\* A file is absent, unreadable (it exists, reading fails), malformed (it
\* does not deserialize) or ok with its content.
File(state, content) == [state |-> state, content |-> content]

Ok(v) == [ok |-> TRUE, val |-> v]

Err(e) == [ok |-> FALSE, val |-> e]

\* parse_metadata trying meta.yaml before metadata.json
parse_metadata_yaml_first(dir) ==
    IF dir.yaml.state # "absent"
    THEN CASE dir.yaml.state = "unreadable" -> Err("Io")
           [] dir.yaml.state = "malformed"  -> Err("MetadataInvalid")
           [] OTHER -> Ok(Some(yaml_to_metadata(dir.yaml.content)))
    ELSE IF dir.json.state # "absent"
    THEN CASE dir.json.state = "unreadable" -> Err("Io")
           [] dir.json.state = "malformed"  -> Err("MetadataInvalid")
           [] OTHER -> Ok(Some(json_to_metadata(dir.json.content)))
    ELSE Ok(None)

\* parse_metadata: Ok(Some(meta)), Ok(None) or Err
parse_metadata(dir) ==
    IF dir.json.state # "absent"
    THEN CASE dir.json.state = "unreadable" -> Err("Io")
           [] dir.json.state = "malformed"  -> Err("MetadataInvalid")
           [] OTHER -> Ok(Some(json_to_metadata(dir.json.content)))
    ELSE IF dir.yaml.state # "absent"
    THEN CASE dir.yaml.state = "unreadable" -> Err("Io")
           [] dir.yaml.state = "malformed"  -> Err("MetadataInvalid")
           [] OTHER -> Ok(Some(yaml_to_metadata(dir.yaml.content)))
    ELSE Ok(None)

\* parse_plan of a plan.md that exists
parse_plan(file) ==
    IF file.state = "unreadable" THEN Err("Io")
    ELSE Ok(parse_plan_content(file.content))

\* ------------------------------------------------------------------------
\* parser/mod.rs and app.rs: load and reload
\* ------------------------------------------------------------------------
EmptyDir ==
    [ json |-> File("absent", EmptyRaw), yaml |-> File("absent", EmptyRaw),
      plan |-> File("absent", <<>>) ]

\* the directory tracks/<id>
track_dir(d, id) == IF id \in DOMAIN d.dirs THEN d.dirs[id] ELSE EmptyDir

\* load_metadata with the status of the index kept
load_metadata_keep_status(t, dir) ==
    LET r == parse_metadata(dir) IN
    IF r.ok /\ r.val # None
    THEN [merge_metadata(t, r.val[1]) EXCEPT !.status = t.status]
    ELSE t

\* load_metadata falling back to the defaults when the file does not parse
load_metadata_defaults_on_error(t, dir) ==
    LET r == parse_metadata(dir) IN
    IF r.ok THEN (IF r.val # None THEN merge_metadata(t, r.val[1]) ELSE t)
    ELSE [DefaultTrack EXCEPT !.id = t.id, !.title = t.title]

\* the metadata step of load_all_tracks and reload_tracks for one track
load_metadata(t, dir) ==
    LET r == parse_metadata(dir) IN
    IF r.ok /\ r.val # None THEN merge_metadata(t, r.val[1]) ELSE t

\* load_plan emptying the plan of the track when there is none to read
load_plan_clear_on_missing(t, dir) ==
    IF dir.plan.state # "absent" /\ parse_plan(dir.plan).ok
    THEN merge_plan(t, parse_plan(dir.plan).val)
    ELSE merge_plan(t, <<>>)

\* the plan step of load_all_tracks and reload_tracks for one track
load_plan(t, dir) ==
    IF dir.plan.state # "absent" /\ parse_plan(dir.plan).ok
    THEN merge_plan(t, parse_plan(dir.plan).val)
    ELSE t

\* the normalization both loaders apply
normalize_if_complete(t) ==
    IF t.status = "Complete" THEN mark_all_tasks_complete(t) ELSE t

\* read_index taking a missing tracks.md for an empty one
read_index_missing_is_empty(d) ==
    CASE d.index.state = "absent"     -> Ok(<<>>)
      [] d.index.state = "unreadable" -> Err("Io")
      [] OTHER -> Ok(parse_index(markdown_events(d.index.content, 1)))

\* parse_index with the read of tracks.md
read_index(d) ==
    CASE d.index.state = "absent"     -> Err("IndexNotFound")
      [] d.index.state = "unreadable" -> Err("Io")
      [] OTHER -> Ok(parse_index(markdown_events(d.index.content, 1)))

load_all_tracks(d) ==
    IF ~read_index(d).ok THEN read_index(d)
    ELSE LET indexed == read_index(d).val
             merged == [id \in DOMAIN indexed |->
                           load_plan(load_metadata(indexed[id], track_dir(d, id)),
                                     track_dir(d, id))]
         IN Ok([id \in DOMAIN merged |-> normalize_if_complete(merged[id])])

\* reload of one track without the normalization
reload_track_unnormalized(t, dir) == load_plan(load_metadata(t, dir), dir)

\* the body of the loop of reload_tracks for a track of the collection
reload_track(t, dir) == normalize_if_complete(load_plan(load_metadata(t, dir), dir))

\* a loop that creates a Track for a listed identity the collection lacks
RECURSIVE reload_listed_create_missing(_, _, _, _)
reload_listed_create_missing(ts, d, ids, i) ==
    IF i > Len(ids) THEN ts
    ELSE LET id == ids[i]
             t == IF id \in DOMAIN ts THEN ts[id] ELSE [DefaultTrack EXCEPT !.id = id]
         IN reload_listed_create_missing(
                (id :> reload_track(t, track_dir(d, id))) @@ ts, d, ids, i + 1)

\* ReloadScope::Tracks(track_ids): the loop over the list
RECURSIVE reload_listed(_, _, _, _)
reload_listed(ts, d, ids, i) ==
    IF i > Len(ids) THEN ts
    ELSE LET id == ids[i] IN
         reload_listed(IF id \in DOMAIN ts
                       THEN [ts EXCEPT ![id] = reload_track(ts[id], track_dir(d, id))]
                       ELSE ts,
                       d, ids, i + 1)

\* ------------------------------------------------------------------------
\* Specification of the merge engine: an index-created Track receives
\* merge_metadata, merge_plan and mark_all_tasks_complete calls
\* ------------------------------------------------------------------------
SampleIndex ==
    << LineH2(<<"[x]", "Track:", "Alpha", "U+2705", "COMPLETE">>),
       LineLink(<<".", "conductor", "tracks", "a", "">>),
       LineField("Priority", TRUE, <<"High">>),
       LineField("Tags", TRUE, <<"ui", "api">>),
       LineField("Status", TRUE, <<"Completed (2026-02-06)">>),
       LineField("Branch", TRUE, <<"^feat/x^">>),
       LineField("Dependencies", TRUE, <<"^b^">>),
       LineRule,
       LineH2(<<"[ ]", "Track:", "Beta">>),
       LineLink(<<".", "tracks", "b", "">>) >>

IndexCreatedTracks == Range(parse_index(markdown_events(SampleIndex, 1)))

MergeMetas ==
    { DefaultMetadata,
      [DefaultMetadata EXCEPT !.status = "InProgress", !.priority = "High",
                              !.created_at = Some(1), !.dependencies = <<"b">>],
      [DefaultMetadata EXCEPT !.status = "Complete", !.track_type = "Feature",
                              !.tags = <<"frontend">>, !.branch = Some("main")],
      [DefaultMetadata EXCEPT !.updated_at = Some(2), !.description = Some("text")],
      [ status |-> "Blocked", priority |-> "Low", track_type |-> "Bug",
        created_at |-> Some(2), updated_at |-> Some(3),
        dependencies |-> <<"c", "c">>, tags |-> <<"api", "backend">>,
        branch |-> Some("feat/y"), description |-> Some("other") ] }

MaxMergeDocLen == 3

MergeItems == { Heading(2, "Phase 1"), TaskItem(TRUE, "Task: a"), TaskItem(FALSE, "b") }

MergePhases == {parse_plan_content(d) : d \in SeqsUpTo(MergeItems, MaxMergeDocLen)}

InitMerge ==
    /\ pc = "merge"
    /\ track \in IndexCreatedTracks
    /\ call = NoCall
    /\ PlanIdle /\ IndexIdle /\ WatchIdle /\ AppIdle /\ MetaIdle /\ StepIdle

MergeMetadata ==
    /\ pc = "merge"
    /\ \E meta \in MergeMetas :
          /\ track' = merge_metadata(track, meta)
          /\ call' = [op |-> "merge_metadata", arg |-> meta,
                      again |-> call.op = "merge_metadata" /\ call.arg = meta]
    /\ UNCHANGED <<metaVars, stepVars, pc, planVars, indexVars, watchVars, appVars>>

MergePlan ==
    /\ pc = "merge"
    /\ \E phases \in MergePhases :
          /\ track' = merge_plan(track, phases)
          /\ call' = [op |-> "merge_plan", arg |-> phases,
                      again |-> call.op = "merge_plan"]
    /\ UNCHANGED <<metaVars, stepVars, pc, planVars, indexVars, watchVars, appVars>>

MarkAllTasksComplete ==
    /\ pc = "merge"
    /\ track' = mark_all_tasks_complete(track)
    /\ call' = [op |-> "mark_all_tasks_complete", arg |-> <<>>,
                again |-> call.op = "mark_all_tasks_complete"]
    /\ UNCHANGED <<metaVars, stepVars, pc, planVars, indexVars, watchVars, appVars>>

NextMerge == MergeMetadata \/ MergePlan \/ MarkAllTasksComplete

SpecMerge == InitMerge /\ [][NextMerge]_vars

\* ------------------------------------------------------------------------
\* Specification of the plan parser: a document is drawn, then parsed
\* ------------------------------------------------------------------------
InitPlan ==
    /\ pc = "plan_input"
    /\ plan_doc \in PlanDocs
    /\ phases_out = <<>>
    /\ MergeIdle /\ IndexIdle /\ WatchIdle /\ AppIdle /\ MetaIdle /\ StepIdle

ParsePlanContent ==
    /\ pc = "plan_input"
    /\ pc' = "plan_parsed"
    /\ phases_out' = parse_plan_content(plan_doc)
    /\ UNCHANGED <<metaVars, stepVars, plan_doc, mergeVars, indexVars, watchVars, appVars>>

NextPlan == ParsePlanContent

SpecPlan == InitPlan /\ [][NextPlan]_vars

\* ------------------------------------------------------------------------
\* Specification of the index parser: a tracks.md is drawn, then parsed
\* ------------------------------------------------------------------------
MaxIndexLen == 4

IndexLines ==
    { LineH2(<<"[x]", "Track:", "Alpha", "U+2705", "COMPLETE">>),
      LineH2(<<"[~]", "Track:", "Beta">>),
      LineH2(<<"Track:", "Gamma">>),
      LineH2(<<"Other", "Tracks">>),
      LineLink(<<".", "tracks", "a", "">>),
      LineLink(<<".", "conductor", "tracks", "b">>),
      LineLink(<<".", "tracks", "a", "plan.md">>),
      LineLink(<<"">>),
      LineField("Status", TRUE, <<"Completed">>),
      LineField("Status:", FALSE, <<"Not_started">>),
      LineField("Status", TRUE, <<" In_Progress ">>),
      LineField("Priority", TRUE, <<"High">>),
      LineRule }

IndexDocs == SeqsUpTo(IndexLines, MaxIndexLen)

InitIndex ==
    /\ pc = "index_input"
    /\ index_doc \in IndexDocs
    /\ index_out = <<>>
    /\ PlanIdle /\ MergeIdle /\ WatchIdle /\ AppIdle /\ MetaIdle /\ StepIdle

ParseIndex ==
    /\ pc = "index_input"
    /\ pc' = "index_parsed"
    /\ index_out' = parse_index(markdown_events(index_doc, 1))
    /\ UNCHANGED <<metaVars, stepVars, index_doc, planVars, mergeVars, watchVars, appVars>>

NextIndex == ParseIndex

SpecIndex == InitIndex /\ [][NextIndex]_vars

\* ------------------------------------------------------------------------
\* Specification of the file watcher and the reload classifier: a batch of
\* filesystem events is drawn, the debouncer callback filters it, and the
\* app classifies what it receives
\* ------------------------------------------------------------------------
MaxBatch == 3

WatchedPaths ==
    { <<"proj", "conductor", "tracks.md">>,
      <<"proj", "conductor", "tracks", "a", "plan.md">>,
      <<"proj", "conductor", "tracks", "a", "metadata.json">>,
      <<"proj", "conductor", "tracks", "b", "meta.yaml">>,
      <<"proj", "conductor", "tracks", "b", "spec.md">>,
      <<"proj", "conductor", "docs", "c", "plan.md">>,
      <<"proj", "conductor", "tracks", "plan.md">>,
      <<"proj", "conductor", "tracks", "a", "notes.txt">>,
      <<"tracks", "d", "meta.yaml">> }

InitWatch ==
    /\ pc = "watch_events"
    /\ fs_events \in SeqsUpTo(WatchedPaths, MaxBatch)
    /\ batch = None
    /\ scope = None
    /\ PlanIdle /\ MergeIdle /\ IndexIdle /\ AppIdle /\ MetaIdle /\ StepIdle

\* run_file_watcher: the callback forwards a non-empty filtered batch
ForwardBatch ==
    /\ pc = "watch_events"
    /\ debounced_paths(fs_events) # <<>>
    /\ pc' = "watch_sent"
    /\ batch' = Some(debounced_paths(fs_events))
    /\ UNCHANGED <<metaVars, stepVars, fs_events, scope, planVars, mergeVars, indexVars, appVars>>

\* App::handle_event, Event::FilesChanged: the classification
ClassifyBatch ==
    /\ pc = "watch_sent"
    /\ pc' = "watch_classified"
    /\ scope' = Some(classify_changes(batch[1]))
    /\ UNCHANGED <<metaVars, stepVars, fs_events, batch, planVars, mergeVars, indexVars, appVars>>

NextWatch == ForwardBatch \/ ClassifyBatch

SpecWatch == InitWatch /\ [][NextWatch]_vars

\* ------------------------------------------------------------------------
\* Specification of the app: files of the conductor directory are edited,
\* the app loads everything at start and on a forced refresh, and reloads
\* on the change notifications of the watcher
\* ------------------------------------------------------------------------
IndexA ==
    << LineH2(<<"[x]", "Track:", "Alpha", "U+2705", "COMPLETE">>),
       LineLink(<<".", "conductor", "tracks", "a", "">>),
       LineField("Status", TRUE, <<"Completed">>),
       LineRule,
       LineH2(<<"[~]", "Track:", "Beta">>),
       LineLink(<<".", "conductor", "tracks", "b", "">>) >>

IndexB ==
    << LineH2(<<"Track:", "Gamma">>),
       LineLink(<<".", "tracks", "a", "">>),
       LineField("Status:", FALSE, <<"Not_started">>) >>

IndexFiles ==
    { File("absent", <<>>), File("ok", IndexA), File("ok", IndexB) }

JsonInProgress == [EmptyRaw EXCEPT !.status = Some("in_progress")]

JsonCompleted == [EmptyRaw EXCEPT !.status = Some("Completed")]

YamlNotStarted ==
    [EmptyRaw EXCEPT !.status = Some("Not_started"), !.priority = Some("High")]

PlanDone == <<Heading(2, "Phase 1"), TaskItem(TRUE, "Task: a"), TaskItem(TRUE, "Task: a")>>

PlanOpen ==
    << TaskItem(FALSE, "b"), Heading(2, "Phase 1"), TaskItem(TRUE, "Task: a"),
       TaskItem(FALSE, "b") >>

\* the track directories that hold files; tracks/b stays empty
DirIds == {"a"}

JsonFiles ==
    { File("absent", EmptyRaw), File("malformed", EmptyRaw),
      File("ok", JsonInProgress), File("ok", JsonCompleted) }

YamlFiles == { File("absent", EmptyRaw), File("ok", YamlNotStarted) }

PlanFiles ==
    { File("absent", <<>>), File("unreadable", <<>>), File("ok", PlanDone),
      File("ok", PlanOpen) }

ConductorDir == <<"proj", "conductor">>

MaxAppBatch == 2

AppPaths ==
    { ConductorDir \o <<"tracks.md">>,
      ConductorDir \o <<"tracks", "a", "metadata.json">>,
      ConductorDir \o <<"tracks", "b", "plan.md">>,
      ConductorDir \o <<"tracks", "c", "meta.yaml">> }

AppBatches == SeqsUpTo(AppPaths, MaxAppBatch) \ {<<>>}

\* App::new, on a conductor directory holding an index and empty track
\* directories
Init ==
    /\ pc = "app_start"
    /\ disk = [index |-> File("ok", IndexA), dirs |-> [id \in DirIds |-> EmptyDir]]
    /\ tracks = <<>>
    /\ error_message = None
    /\ last = "new"
    /\ PlanIdle /\ MergeIdle /\ IndexIdle /\ WatchIdle /\ MetaIdle /\ StepIdle

\* a load that empties the collection when the load fails
load_tracks_clear_on_error ==
    LET r == load_all_tracks(disk) IN
    /\ tracks' = IF r.ok THEN r.val ELSE <<>>
    /\ error_message' = IF r.ok THEN error_message ELSE Some(r.val)
    /\ last' = IF r.ok THEN "load" ELSE "load_failed"

\* App::load_tracks
load_tracks ==
    LET r == load_all_tracks(disk) IN
    /\ tracks' = IF r.ok THEN r.val ELSE tracks
    /\ error_message' = IF r.ok THEN error_message ELSE Some(r.val)
    /\ last' = IF r.ok THEN "load" ELSE "load_failed"

\* App::run: the initial load; later, the load of Action::ForceRefresh
LoadTracks ==
    /\ pc \in {"app_start", "app_running"}
    /\ pc' = "app_running"
    /\ load_tracks
    /\ UNCHANGED <<metaVars, stepVars, disk, planVars, mergeVars, indexVars, watchVars>>

\* App::handle_event, Event::FilesChanged: classify_changes and reload_tracks
FilesChanged ==
    /\ pc = "app_running"
    /\ \E paths \in AppBatches :
          LET sc == classify_changes(debounced_paths(paths)) IN
          IF sc.kind = "Full"
          THEN load_tracks
          ELSE /\ tracks' = reload_listed(tracks, disk, sc.ids, 1)
               /\ last' = "reload"
               /\ UNCHANGED error_message
    /\ UNCHANGED <<metaVars, stepVars, pc, disk, planVars, mergeVars, indexVars, watchVars>>

\* somebody writes or removes tracks.md
EditIndex ==
    /\ \E f \in IndexFiles \ {disk.index} : disk' = [disk EXCEPT !.index = f]
    /\ last' = "edit"
    /\ UNCHANGED <<metaVars, stepVars, pc, tracks, error_message, planVars, mergeVars, indexVars, watchVars>>

\* somebody writes or removes a metadata.json or a meta.yaml
EditMetadata ==
    /\ \E id \in DirIds :
          \/ \E f \in JsonFiles \ {disk.dirs[id].json} :
                disk' = [disk EXCEPT !.dirs[id].json = f]
          \/ \E f \in YamlFiles \ {disk.dirs[id].yaml} :
                disk' = [disk EXCEPT !.dirs[id].yaml = f]
    /\ last' = "edit"
    /\ UNCHANGED <<metaVars, stepVars, pc, tracks, error_message, planVars, mergeVars, indexVars, watchVars>>

\* somebody writes or removes a plan.md
EditPlan ==
    /\ \E id \in DirIds : \E f \in PlanFiles \ {disk.dirs[id].plan} :
          disk' = [disk EXCEPT !.dirs[id].plan = f]
    /\ last' = "edit"
    /\ UNCHANGED <<metaVars, stepVars, pc, tracks, error_message, planVars, mergeVars, indexVars, watchVars>>

Next == LoadTracks \/ FilesChanged \/ EditIndex \/ EditMetadata \/ EditPlan

Spec == Init /\ [][Next]_vars

\* ------------------------------------------------------------------------
\* Claims on the plan parser
\* ------------------------------------------------------------------------
ActivePhases == {k \in 1..Len(phases_out) : phases_out[k].status = "Active"}

NotFullyDone(p) == p.tasks # <<>> /\ ~all_done(p)

\* C1: after phase statuses are derived at most one phase is Active, and
\* every not-fully-done phase after an Active one is Pending.
C1_AtMostOneActive ==
    pc = "plan_parsed" =>
        /\ Cardinality(ActivePhases) <= 1
        /\ \A i, j \in 1..Len(phases_out) :
              (i < j /\ phases_out[i].status = "Active" /\ NotFullyDone(phases_out[j]))
                  => phases_out[j].status = "Pending"

\* ------------------------------------------------------------------------
\* Claims on the merge engine
\* ------------------------------------------------------------------------
MetaFields ==
    { "status", "priority", "track_type", "created_at", "updated_at",
      "dependencies", "tags", "branch", "description" }

\* C5: merge_metadata leaves unchanged every Track field whose metadata
\* value is the default of its type.
C5_DefaultFieldsKept ==
    [][ call'.op = "merge_metadata" =>
            \A f \in MetaFields :
                call'.arg[f] = DefaultMetadata[f] => track'[f] = track[f] ]_vars

C5_Witness ==
    /\ call.op = "merge_metadata"
    /\ call.arg.status = "New" /\ call.arg.description # None
    /\ track.status = "Complete" /\ track.priority = "High"
    /\ track.description = call.arg.description

\* C6: applying the same metadata a second time in a row changes nothing.
C6_MergeMetadataIdempotent ==
    [][ (call.op = "merge_metadata" /\ call'.op = "merge_metadata"
            /\ call'.arg = call.arg) => track' = track ]_vars

C6_Witness ==
    /\ call.op = "merge_metadata" /\ call.again
    /\ call.arg.dependencies = <<"c", "c">>
    /\ track = merge_metadata(track, call.arg)
    /\ track.status = "Blocked"

\* the tasks of a phase list, as (phase, task) positions
TaskPositions(phases) ==
    {<<i, k>> \in (1..Len(phases)) \X (1..MaxDocLen) : k <= Len(phases[i].tasks)}

DonePositions(phases) ==
    {pos \in TaskPositions(phases) : phases[pos[1]].tasks[pos[2]].done}

\* C7: merge_plan sets the counters to the exact task counts of the supplied
\* phases and replaces the phase list; prior values do not contribute.
C7_MergePlanExactCounts ==
    [][ call'.op = "merge_plan" =>
            /\ track'.tasks_total = Cardinality(TaskPositions(call'.arg))
            /\ track'.tasks_completed = Cardinality(DonePositions(call'.arg))
            /\ track'.plan_phases = call'.arg ]_vars

C7_Witness ==
    /\ call.op = "merge_plan" /\ call.again
    /\ Len(track.plan_phases) = 2
    /\ track.tasks_total = 2 /\ track.tasks_completed = 1

\* C10: under any sequence of merge calls tasks_completed <= tasks_total,
\* progress_percent is within 0..100 and is 0 when there are no tasks.
C10_ProgressWithinBounds ==
    pc = "merge" =>
        /\ track.tasks_completed <= track.tasks_total
        /\ progress_percent(track) \in 0..100
        /\ (track.tasks_total = 0 => progress_percent(track) = 0)

C10_Witness ==
    /\ call.op = "mark_all_tasks_complete"
    /\ track.tasks_total = 3 /\ progress_percent(track) = 100

\* ------------------------------------------------------------------------
\* Claims on the index parser
\* ------------------------------------------------------------------------
\* positions of the headings that open an entry, in document order
TrackHeadings(doc) ==
    {i \in 1..Len(doc) : doc[i].kind = "h2" /\ parse_h2_heading(doc[i].toks) # None}

\* the lines of the entry opened at line i: up to the next level-2 heading
EntryBody(doc, i) ==
    {j \in (i + 1)..Len(doc) : \A h \in (i + 1)..j : doc[h].kind # "h2"}

StatusLines(doc, i) ==
    {j \in EntryBody(doc, i) : doc[j].kind = "field" /\ doc[j].key \in {"Status", "Status:"}}

Last(S) == CHOOSE j \in S : \A k \in S : k <= j

\* the coerced value of the entry's Status field
StatusField(doc, i) ==
    Status_from_str_loose(JoinWith(doc[Last(StatusLines(doc, i))].parts, ", "))

HeadingCheckbox(doc, i) == parse_h2_heading(doc[i].toks)[1].checkbox

\* the k-th entry of the parser's output belongs to the k-th entry heading
EntryOf(doc, i) ==
    parse_index_content(markdown_events(doc, 1))
        [Cardinality({h \in TrackHeadings(doc) : h <= i})]

\* the headings whose Track is in the map: the last one of each identity
Surviving(doc) ==
    {i \in TrackHeadings(doc) :
        \A h \in TrackHeadings(doc) : h > i => EntryOf(doc, h).id # EntryOf(doc, i).id}

\* C2 as stated: the checkbox decides only when there is no Status field;
\* a Status field, whatever it coerces to, is the Track's status.
C2_StatusFieldAlwaysWins ==
    pc = "index_parsed" =>
        \A i \in Surviving(index_doc) :
            index_out[EntryOf(index_doc, i).id].status =
                IF StatusLines(index_doc, i) = {}
                THEN to_status(HeadingCheckbox(index_doc, i))
                ELSE StatusField(index_doc, i)

\* C2 amended: a Status field that coerces to InProgress, Blocked or
\* Complete is the Track's status; with no Status field, or one that coerces
\* to New, the checkbox decides.
C2_NonNewStatusFieldWins ==
    pc = "index_parsed" =>
        \A i \in Surviving(index_doc) :
            index_out[EntryOf(index_doc, i).id].status =
                IF StatusLines(index_doc, i) = {} \/ StatusField(index_doc, i) = "New"
                THEN to_status(HeadingCheckbox(index_doc, i))
                ELSE StatusField(index_doc, i)

C2_Witness ==
    /\ pc = "index_parsed"
    /\ \E i \in Surviving(index_doc) :
          /\ StatusLines(index_doc, i) # {}
          /\ HeadingCheckbox(index_doc, i) = "Checked"
          /\ StatusField(index_doc, i) = "InProgress"
          /\ index_out[EntryOf(index_doc, i).id].status = "InProgress"

\* ------------------------------------------------------------------------
\* Claims on the reload classifier
\* ------------------------------------------------------------------------
HasIndexPath(paths) ==
    \E k \in 1..Len(paths) : paths[k][Len(paths[k])] = "tracks.md"

\* C8: a batch with a path named tracks.md is classified as a full reload,
\* wherever the path stands and whatever else the batch holds.
C8_IndexPathForcesFull ==
    (pc = "watch_classified" /\ HasIndexPath(batch[1])) => scope[1] = ScopeFull

C8_Witness ==
    /\ pc = "watch_classified"
    /\ Len(batch[1]) = 3
    /\ batch[1][1] = <<"proj", "conductor", "tracks", "a", "plan.md">>
    /\ batch[1][2] = <<"proj", "conductor", "tracks.md">>
    /\ batch[1][3] = <<"proj", "conductor", "tracks", "b", "meta.yaml">>
    /\ scope[1].kind = "Full"

\* paths shaped .../tracks/<identity>/<file>
Shaped(path) == Len(path) >= 3 /\ path[Len(path) - 2] = "tracks"

ShapedAt(paths) == {k \in 1..Len(paths) : Shaped(paths[k])}

IdentityOf(path) == path[Len(path) - 1]

FirstSeen(paths, id) ==
    CHOOSE k \in ShapedAt(paths) :
        /\ IdentityOf(paths[k]) = id
        /\ \A j \in ShapedAt(paths) : IdentityOf(paths[j]) = id => k <= j

\* C9: a batch without the index path gives a partial list holding exactly
\* the identities of the paths shaped .../tracks/<identity>/<file>, each
\* once, in the order of first occurrence.
C9_PartialListExact ==
    (pc = "watch_classified" /\ ~HasIndexPath(batch[1])) =>
        LET ids == scope[1].ids IN
        /\ scope[1].kind = "Tracks"
        /\ {ids[k] : k \in 1..Len(ids)} = {IdentityOf(batch[1][k]) : k \in ShapedAt(batch[1])}
        /\ \A i, j \in 1..Len(ids) :
              i < j => /\ ids[i] # ids[j]
                       /\ FirstSeen(batch[1], ids[i]) < FirstSeen(batch[1], ids[j])

C9_Witness ==
    /\ pc = "watch_classified"
    /\ Len(batch[1]) = 3
    /\ batch[1][1] = <<"proj", "conductor", "tracks", "b", "spec.md">>
    /\ batch[1][2] = <<"proj", "conductor", "docs", "c", "plan.md">>
    /\ batch[1][3] = <<"proj", "conductor", "tracks", "a", "plan.md">>
    /\ scope[1] = ScopeTracks(<<"b", "a">>)

\* ------------------------------------------------------------------------
\* Claims on load and reload
\* ------------------------------------------------------------------------
FullyDone(t) ==
    /\ t.tasks_completed = t.tasks_total
    /\ \A i \in 1..Len(t.plan_phases) :
          /\ t.plan_phases[i].status = "Complete"
          /\ \A k \in 1..Len(t.plan_phases[i].tasks) : t.plan_phases[i].tasks[k].done

\* C3: after every full load and every partial reload, a Track whose status
\* is Complete has all tasks done, all phases Complete and
\* tasks_completed = tasks_total.
C3_CompleteTracksFullyDone ==
    \A id \in DOMAIN tracks : tracks[id].status = "Complete" => FullyDone(tracks[id])

C3_Witness ==
    /\ last = "reload"
    /\ disk.dirs["a"].plan = File("ok", PlanOpen)
    /\ disk.dirs["a"].json = File("ok", JsonCompleted)
    /\ disk.index = File("ok", IndexB)
    /\ tracks["a"].status = "Complete"
    /\ tracks["a"].tasks_total = 3 /\ tracks["a"].tasks_completed = 3
    /\ Len(tracks["a"].plan_phases) = 2

\* the status a metadata file set gives, New when it gives none
MetadataStatus(dir) ==
    IF dir.json.state = "ok"
    THEN IF dir.json.content.status = None THEN "New"
         ELSE Status_from_str_loose(dir.json.content.status[1])
    ELSE IF dir.json.state = "absent" /\ dir.yaml.state = "ok"
    THEN IF dir.yaml.content.status = None THEN "New"
         ELSE Status_from_str_loose(dir.yaml.content.status[1])
    ELSE "New"

IndexStatus(id) == parse_index(markdown_events(disk.index.content, 1))[id].status

\* C4: after a full load a track has the status of its metadata file when
\* that is InProgress, Blocked or Complete, and the status the index gave it
\* when the metadata status is New or the metadata is absent or malformed.
C4_MetadataStatusOverridesIndex ==
    last = "load" =>
        \A id \in DOMAIN tracks :
            tracks[id].status =
                IF MetadataStatus(track_dir(disk, id)) # "New"
                THEN MetadataStatus(track_dir(disk, id))
                ELSE IndexStatus(id)

C4_Witness ==
    /\ last = "load"
    /\ disk.index = File("ok", IndexA)
    /\ disk.dirs["a"].json = File("ok", JsonInProgress)
    /\ IndexStatus("a") = "Complete"
    /\ tracks["a"].status = "InProgress"
    /\ tracks["b"].status = "InProgress"

\* ------------------------------------------------------------------------
\* Specification of the full load: the app starts on a conductor directory
\* in any state of its files and loads it once
\* ------------------------------------------------------------------------
LoadIndexFiles == IndexFiles \cup { File("unreadable", <<>>) }

LoadDirs ==
    [ json : JsonFiles \cup { File("unreadable", EmptyRaw) },
      yaml : YamlFiles \cup { File("malformed", EmptyRaw) },
      plan : PlanFiles ]

LoadDisks == [ index : LoadIndexFiles, dirs : [{"a", "b"} -> LoadDirs] ]

InitLoad ==
    /\ pc = "load_input"
    /\ disk \in LoadDisks
    /\ tracks = <<>>
    /\ error_message = None
    /\ last = "new"
    /\ PlanIdle /\ MergeIdle /\ IndexIdle /\ WatchIdle /\ MetaIdle /\ StepIdle

\* App::run: the initial load
LoadAll ==
    /\ pc = "load_input"
    /\ pc' = "loaded"
    /\ load_tracks
    /\ UNCHANGED <<metaVars, stepVars, disk, planVars, mergeVars, indexVars, watchVars>>

NextLoad == LoadAll

SpecLoad == InitLoad /\ [][NextLoad]_vars

\* ------------------------------------------------------------------------
\* Claims on the errors of a full load
\* ------------------------------------------------------------------------
\* the metadata of a track directory exists and does not load
MetadataBroken(dir) ==
    \/ dir.json.state \in {"malformed", "unreadable"}
    \/ dir.json.state = "absent" /\ dir.yaml.state \in {"malformed", "unreadable"}

PlanBroken(dir) == dir.plan.state = "unreadable"

Indexed(d) == parse_index(markdown_events(d.index.content, 1))

\* the disk with the directory of one track emptied
WithoutDir(d, id) == [d EXCEPT !.dirs[id] = EmptyDir]

\* C11: in a full load a malformed or unreadable metadata file or an
\* unreadable plan file of a track does not fail the load, does not change
\* the record of any other track, and leaves the track in the result with
\* the values the index gave it.
C11_TrackErrorsStayLocal ==
    (pc = "loaded" /\ disk.index.state = "ok") =>
        /\ last = "load"
        /\ \A id \in DOMAIN Indexed(disk) :
              LET dir == track_dir(disk, id) IN
              /\ id \in DOMAIN tracks
              /\ MetadataBroken(dir) =>
                    \A f \in MetaFields : tracks[id][f] = Indexed(disk)[id][f]
              /\ PlanBroken(dir) =>
                    /\ tracks[id].tasks_total = 0 /\ tracks[id].tasks_completed = 0
                    /\ tracks[id].plan_phases = <<>>
                    /\ tracks[id].phase = Indexed(disk)[id].phase
              /\ (MetadataBroken(dir) \/ PlanBroken(dir)) =>
                    \A other \in DOMAIN Indexed(disk) \ {id} :
                        /\ other \in DOMAIN tracks
                        /\ tracks[other] = load_all_tracks(WithoutDir(disk, id)).val[other]

C11_Witness ==
    /\ pc = "loaded" /\ last = "load"
    /\ disk.index = File("ok", IndexA)
    /\ disk.dirs["a"].json.state = "malformed"
    /\ disk.dirs["a"].plan.state = "unreadable"
    /\ disk.dirs["b"].json = File("ok", JsonCompleted)
    /\ disk.dirs["b"].plan = File("ok", PlanOpen)
    /\ tracks["a"].status = "Complete" /\ tracks["a"].tasks_total = 0
    /\ tracks["b"].status = "Complete" /\ tracks["b"].tasks_completed = 3

\* C12: load_all_tracks fails, and gives no collection, exactly when
\* tracks.md cannot be read; for every readable index it gives a collection
\* with the tracks of the index.
C12_LoadFailsOnlyOnIndex ==
    pc = "loaded" =>
        /\ last \in {"load", "load_failed"}
        /\ last = "load_failed" <=> disk.index.state # "ok"
        /\ last = "load_failed" => tracks = <<>> /\ error_message # None
        /\ last = "load" => /\ error_message = None
                            /\ DOMAIN tracks = DOMAIN Indexed(disk)

C12_Witness ==
    /\ pc = "loaded" /\ last = "load_failed"
    /\ disk.index.state = "absent"
    /\ disk.dirs["a"].json = File("ok", JsonInProgress)
    /\ error_message = Some("IndexNotFound")
    /\ tracks = <<>>

\* ------------------------------------------------------------------------
\* Claims on the entries of the index parser
\* ------------------------------------------------------------------------
\* C13: every Track that parse_index creates has a non-empty identity; an
\* entry without an identity creates no Track.
C13_TracksHaveIdentity ==
    pc = "index_parsed" =>
        \A id \in DOMAIN index_out : id # "" /\ index_out[id].id # ""

\* the document with the lines between a thematic break and the next
\* level-2 heading removed
RECURSIVE CutAfterRule(_, _, _)
CutAfterRule(doc, i, closed) ==
    IF i > Len(doc) THEN <<>>
    ELSE CASE doc[i].kind = "h2"   -> <<doc[i]>> \o CutAfterRule(doc, i + 1, FALSE)
           [] doc[i].kind = "rule" -> <<doc[i]>> \o CutAfterRule(doc, i + 1, TRUE)
           [] OTHER -> (IF closed THEN <<>> ELSE <<doc[i]>>)
                       \o CutAfterRule(doc, i + 1, closed)

NotRule(line) == line.kind # "rule"

\* C20 as stated: a thematic break closes the entry; what follows it up to
\* the next level-2 heading changes nothing of the preceding entry.
C20_RuleClosesEntry ==
    pc = "index_parsed" =>
        index_out = parse_index(markdown_events(CutAfterRule(index_doc, 1, FALSE), 1))

\* C20 amended: a thematic break does not close the entry; field keys and
\* hyperlinks after it apply to the preceding entry as if the break were
\* absent.
C20_RuleIsIgnored ==
    pc = "index_parsed" =>
        index_out = parse_index(markdown_events(SelectSeq(index_doc, NotRule), 1))

C20_Witness ==
    /\ pc = "index_parsed"
    /\ Len(index_doc) = 4
    /\ index_doc[1] = LineH2(<<"Track:", "Gamma">>)
    /\ index_doc[2] = LineRule
    /\ index_doc[3] = LineLink(<<".", "tracks", "a", "">>)
    /\ index_doc[4] = LineField("Status", TRUE, <<"Completed">>)
    /\ DOMAIN index_out = {"a"}
    /\ index_out["a"].status = "Complete"

\* ------------------------------------------------------------------------
\* Specification of the metadata parser: a track directory is drawn with its
\* two metadata files in any state, then parse_metadata runs on it
\* ------------------------------------------------------------------------
MetaJsonContents ==
    { EmptyRaw, JsonInProgress, JsonCompleted,
      [EmptyRaw EXCEPT !.priority = Some("High"), !.start_date = Some("2026-02-01")],
      [EmptyRaw EXCEPT !.status = Some("DONE"), !.track_type = Some("Feature"),
                       !.created_at = Some("2026-01-15T10:00:00Z"),
                       !.dependencies = <<"b">>] }

MetaYamlContents ==
    { EmptyRaw, YamlNotStarted,
      [EmptyRaw EXCEPT !.status = Some("in_progress")],
      [EmptyRaw EXCEPT !.status = Some("Completed"), !.completed = Some("(2026-02-06)")],
      [EmptyRaw EXCEPT !.tags = <<"api">>, !.branch = Some("main")] }

MetaFiles(contents) ==
    { File("absent", EmptyRaw), File("unreadable", EmptyRaw), File("malformed", EmptyRaw) }
        \cup { File("ok", c) : c \in contents }

MetaDirs ==
    [ json : MetaFiles(MetaJsonContents), yaml : MetaFiles(MetaYamlContents),
      plan : { File("absent", <<>>) } ]

InitMeta ==
    /\ pc = "meta_input"
    /\ \E dir \in MetaDirs :
          disk = [index |-> File("absent", <<>>), dirs |-> [id \in {"a"} |-> dir]]
    /\ tracks = <<>>
    /\ error_message = None
    /\ last = ""
    /\ meta_out = None
    /\ PlanIdle /\ MergeIdle /\ IndexIdle /\ WatchIdle /\ StepIdle

ParseMetadata ==
    /\ pc = "meta_input"
    /\ pc' = "meta_parsed"
    /\ meta_out' = Some(parse_metadata(track_dir(disk, "a")))
    /\ UNCHANGED <<stepVars, planVars, mergeVars, indexVars, watchVars, appVars>>

NextMeta == ParseMetadata

SpecMeta == InitMeta /\ [][NextMeta]_vars

\* ------------------------------------------------------------------------
\* Claims on the metadata parser
\* ------------------------------------------------------------------------
\* the directory without its meta.yaml
WithoutYaml(dir) == [dir EXCEPT !.yaml = File("absent", EmptyRaw)]

\* C14: parse_metadata uses metadata.json whenever it exists, whatever
\* meta.yaml holds; it uses meta.yaml only when metadata.json does not
\* exist; with neither file it returns Ok(None).
C14_JsonBeforeYaml ==
    pc = "meta_parsed" =>
        LET dir == track_dir(disk, "a")
            out == meta_out[1] IN
        /\ dir.json.state # "absent" =>
              /\ out = parse_metadata(WithoutYaml(dir))
              /\ dir.json.state = "ok" =>
                    out = Ok(Some(json_to_metadata(dir.json.content)))
              /\ dir.json.state # "ok" => ~out.ok
        /\ (dir.json.state = "absent" /\ dir.yaml.state = "ok") =>
              out = Ok(Some(yaml_to_metadata(dir.yaml.content)))
        /\ (dir.json.state = "absent" /\ dir.yaml.state \in {"unreadable", "malformed"}) =>
              ~out.ok
        /\ (dir.json.state = "absent" /\ dir.yaml.state = "absent") => out = Ok(None)

C14_Witness ==
    /\ pc = "meta_parsed"
    /\ disk.dirs["a"].json = File("ok", JsonInProgress)
    /\ disk.dirs["a"].yaml = File("ok", YamlNotStarted)
    /\ meta_out[1].ok
    /\ meta_out[1].val[1].status = "InProgress"
    /\ meta_out[1].val[1].priority = "Medium"

\* ------------------------------------------------------------------------
\* Claims on the change notifications
\* ------------------------------------------------------------------------
LastSegment(path) == path[Len(path)]

NoPlanToRead(dir) == dir.plan.state \in {"absent", "unreadable"}

\* the phases with every task done and every status Complete
AllTicked(phases) ==
    [k \in 1..Len(phases) |->
        [ name |-> phases[k].name, status |-> "Complete",
          tasks |-> [j \in 1..Len(phases[k].tasks) |->
                        [text |-> phases[k].tasks[j].text, done |-> TRUE]] ]]

\* C16 as stated: a reload of a track whose plan file is missing or
\* unreadable leaves tasks_total, tasks_completed and plan_phases as they
\* were.
C16_PlanKeptAsIs ==
    [][ last' = "reload" =>
            \A id \in DOMAIN tracks :
                NoPlanToRead(track_dir(disk, id)) =>
                    /\ tracks'[id].tasks_total = tracks[id].tasks_total
                    /\ tracks'[id].tasks_completed = tracks[id].tasks_completed
                    /\ tracks'[id].plan_phases = tracks[id].plan_phases ]_vars

\* C16 amended: such a reload leaves tasks_total as it was, and
\* tasks_completed and plan_phases too unless the track is Complete after
\* the reload: then every task it had is done, every phase Complete and
\* tasks_completed = tasks_total.
C16_PlanKeptUpToNormalization ==
    [][ last' = "reload" =>
            \A id \in DOMAIN tracks :
                NoPlanToRead(track_dir(disk, id)) =>
                    /\ id \in DOMAIN tracks'
                    /\ tracks'[id].tasks_total = tracks[id].tasks_total
                    /\ IF tracks'[id].status = "Complete"
                       THEN /\ tracks'[id].tasks_completed = tracks[id].tasks_total
                            /\ tracks'[id].plan_phases = AllTicked(tracks[id].plan_phases)
                       ELSE /\ tracks'[id].tasks_completed = tracks[id].tasks_completed
                            /\ tracks'[id].plan_phases = tracks[id].plan_phases ]_vars

C16_Witness ==
    /\ last = "reload"
    /\ disk.dirs["a"].plan.state = "unreadable"
    /\ disk.dirs["a"].json = File("ok", JsonInProgress)
    /\ disk.index = File("ok", IndexB)
    /\ tracks["a"].status = "InProgress"
    /\ tracks["a"].tasks_total = 3 /\ tracks["a"].tasks_completed = 1
    /\ Len(tracks["a"].plan_phases) = 2

\* ------------------------------------------------------------------------
\* Claims on the statuses of the phases
\* ------------------------------------------------------------------------
\* C17: after the statuses are derived, a phase without tasks is Pending and
\* a phase with tasks that are all done is Complete.
C17_EmptyPendingDoneComplete ==
    pc = "plan_parsed" =>
        \A k \in 1..Len(phases_out) :
            LET p == phases_out[k] IN
            /\ p.tasks = <<>> => p.status = "Pending"
            /\ (p.tasks # <<>> /\ \A j \in 1..Len(p.tasks) : p.tasks[j].done)
                  => p.status = "Complete"

C17_Witness ==
    /\ pc = "plan_parsed"
    /\ Len(phases_out) = 2
    /\ Len(phases_out[1].tasks) = 2 /\ phases_out[1].status = "Complete"
    /\ phases_out[2].tasks = <<>> /\ phases_out[2].status = "Pending"

\* the phases that have tasks, not all of them done
Unfinished(phases) ==
    {k \in 1..Len(phases) :
        /\ phases[k].tasks # <<>>
        /\ \E j \in 1..Len(phases[k].tasks) : ~phases[k].tasks[j].done}

\* C18: the first phase, in document order, that has tasks not all done is
\* Active, also when none of its tasks is done and a later phase has done
\* tasks.
C18_FirstUnfinishedActive ==
    pc = "plan_parsed" =>
        \A k \in Unfinished(phases_out) :
            (\A j \in Unfinished(phases_out) : k <= j) => phases_out[k].status = "Active"

C18_Witness ==
    /\ pc = "plan_parsed"
    /\ Len(phases_out) = 3
    /\ phases_out[1].tasks = <<>>
    /\ Len(phases_out[2].tasks) = 1 /\ ~phases_out[2].tasks[1].done
    /\ phases_out[2].status = "Active"
    /\ Len(phases_out[3].tasks) = 1 /\ phases_out[3].tasks[1].done

\* ------------------------------------------------------------------------
\* Specification of the plan step of a load: a plan.md is drawn and parsed,
\* and its phases are merged into an index-created Track
\* ------------------------------------------------------------------------
InitPlanMerge ==
    /\ pc = "plan_merge_input"
    /\ plan_doc \in PlanDocs
    /\ phases_out = <<>>
    /\ track \in IndexCreatedTracks
    /\ call = NoCall
    /\ IndexIdle /\ WatchIdle /\ AppIdle /\ MetaIdle /\ StepIdle

\* parse_plan and merge_plan, as load_all_tracks and reload_tracks call them
MergeParsedPlan ==
    /\ pc = "plan_merge_input"
    /\ pc' = "plan_merged"
    /\ phases_out' = parse_plan_content(plan_doc)
    /\ track' = merge_plan(track, parse_plan_content(plan_doc))
    /\ call' = [op |-> "merge_plan", arg |-> parse_plan_content(plan_doc),
                again |-> FALSE]
    /\ UNCHANGED <<plan_doc, indexVars, watchVars, appVars, metaVars, stepVars>>

NextPlanMerge == MergeParsedPlan

SpecPlanMerge == InitPlanMerge /\ [][NextPlanMerge]_vars

\* ------------------------------------------------------------------------
\* Claims on the current phase
\* ------------------------------------------------------------------------
OpenPhases(phases) ==
    {k \in 1..Len(phases) : phases[k].status \in {"Active", "Pending"}}

\* C19: after merge_plan(phases) the current-phase name of the Track is the
\* name of the first supplied phase that is Active or Pending, or the name
\* of the last supplied phase when none is.
C19_CurrentPhaseName ==
    [][ (call'.op = "merge_plan" /\ call'.arg # <<>>) =>
            LET phases == call'.arg IN
            IF OpenPhases(phases) # {}
            THEN \E k \in OpenPhases(phases) :
                    /\ \A j \in OpenPhases(phases) : k <= j
                    /\ track'.phase = phases[k].name
            ELSE track'.phase = phases[Len(phases)].name ]_vars

C19_Witness ==
    /\ pc = "plan_merged"
    /\ Len(call.arg) = 3
    /\ call.arg[1].name = "Tasks" /\ call.arg[1].status = "Complete"
    /\ call.arg[2].name = "Phase 1" /\ call.arg[2].status = "Pending"
    /\ call.arg[3].name = "phase 2" /\ call.arg[3].status = "Active"
    /\ track.plan_phases = call.arg
    /\ track.phase = "Phase 1"

\* ------------------------------------------------------------------------
\* Claims on the identity of an index entry
\* ------------------------------------------------------------------------
LinkLines(doc, S) == {j \in S : doc[j].kind = "link"}

\* the single path segment that follows the last "tracks" component of a
\* destination, or its final segment when there is no such component
SingleSegmentId(dest) ==
    LET url == trim_end_slashes(dest)
        hits == {k \in 2..(Len(url) - 1) : url[k] = "tracks"}
    IN IF hits # {} THEN url[Last(hits) + 1] ELSE url[Len(url)]

\* C21: the identity of every Track of the parsed index is the single path
\* segment that follows /tracks/ in a link destination of the document, also
\* when further segments follow it, or the final segment of a destination
\* without a /tracks/ component.
C21_IdentityIsOneSegment ==
    pc = "index_parsed" =>
        \A id \in DOMAIN index_out :
            id # "" =>
                \E j \in LinkLines(index_doc, 1..Len(index_doc)) :
                    id = SingleSegmentId(index_doc[j].dest)

\* C22: the identity of an entry with hyperlinks is the one extracted from
\* its first hyperlink; no later hyperlink of the entry changes it.
C22_FirstLinkDecides ==
    pc = "index_parsed" =>
        \A i \in TrackHeadings(index_doc) :
            LET links == LinkLines(index_doc, EntryBody(index_doc, i))
                first == CHOOSE j \in links : \A k \in links : j <= k
            IN links # {} =>
                   Some(EntryOf(index_doc, i).id) =
                       extract_track_id_from_link(index_doc[first].dest)

\* the index-level fields of a Track are those of the entry
SameIndexFields(t, e) ==
    /\ t.id = e.id
    /\ t.title = e.title
    /\ t.checkbox_status = e.checkbox
    /\ t.priority = e.priority
    /\ t.tags = e.tags
    /\ t.branch = e.branch
    /\ t.dependencies = e.dependencies

\* C24: the parsed index holds one Track for each identity of its entries,
\* and the index-level fields of that Track are those of the last entry of
\* the document with that identity.
C24_LastEntryOfIdentityWins ==
    pc = "index_parsed" =>
        /\ DOMAIN index_out =
               {EntryOf(index_doc, i).id : i \in TrackHeadings(index_doc)}
        /\ \A i \in Surviving(index_doc) :
               SameIndexFields(index_out[EntryOf(index_doc, i).id],
                               EntryOf(index_doc, i))

\* two entries of the same identity and different titles and priorities;
\* the Track has the title and the priority of the second
C24_Witness ==
    /\ pc = "index_parsed"
    /\ \E i, h \in TrackHeadings(index_doc) :
           /\ i < h
           /\ EntryOf(index_doc, i).id = "a" /\ EntryOf(index_doc, h).id = "a"
           /\ EntryOf(index_doc, i).title = "Alpha"
           /\ EntryOf(index_doc, h).title = "Beta"
    /\ "a" \in DOMAIN index_out
    /\ index_out["a"].title = "Beta"
    /\ index_out["a"].checkbox_status = "InProgress"

\* ------------------------------------------------------------------------
\* Claims on the merges: status and dependencies
\* ------------------------------------------------------------------------
\* C25: merge_plan and mark_all_tasks_complete leave the status of the
\* Track unchanged, whatever the plan says: a Track whose tasks are all done
\* keeps a status other than Complete.
C25_PlanNeverChangesStatus ==
    [][ call'.op \in {"merge_plan", "mark_all_tasks_complete"} =>
            track'.status = track.status ]_vars

\* a plan with every task done merged into a Track that is not Complete
C25_Witness ==
    /\ call.op = "merge_plan"
    /\ track.tasks_total > 0 /\ track.tasks_completed = track.tasks_total
    /\ track.status \in {"New", "InProgress", "Blocked"}

\* C26: when the metadata dependency list is non-empty, merge_metadata makes
\* the Track's dependency list exactly that list: same elements, same order,
\* duplicates kept, nothing of the prior list left.
C26_DependenciesReplaced ==
    [][ (call'.op = "merge_metadata" /\ call'.arg.dependencies # <<>>) =>
            track'.dependencies = call'.arg.dependencies ]_vars

\* the Track a, whose index entry depends on b, after the metadata with
\* the dependency list c, c
C26_Witness ==
    /\ call.op = "merge_metadata"
    /\ track.id = "a"
    /\ call.arg.dependencies = <<"c", "c">>
    /\ track.dependencies = <<"c", "c">>

\* ------------------------------------------------------------------------
\* Claims on the full reload of the app
\* ------------------------------------------------------------------------
\* C30: a full load that cannot read the index leaves the collection as it
\* was and records the error as the app's error message; a full load that
\* succeeds replaces the collection: its identities are exactly those of
\* the index now on disk and no Track of the previous collection is kept.
C30_FullReloadAllOrNothing ==
    [][ last' \in {"load", "load_failed"} =>
            IF disk.index.state = "ok"
            THEN /\ last' = "load"
                 /\ DOMAIN tracks' = DOMAIN Indexed(disk)
                 /\ tracks' = load_all_tracks(disk).val
            ELSE /\ last' = "load_failed"
                 /\ tracks' = tracks
                 /\ error_message' = Some("IndexNotFound") ]_vars

\* a failed full load after a successful one: the two tracks of the former
\* index are still there
C30_Witness ==
    /\ last = "load_failed"
    /\ disk.index.state = "absent"
    /\ DOMAIN tracks = {"a", "b"}
    /\ error_message = Some("IndexNotFound")

\* ------------------------------------------------------------------------
\* Claims on the derived fields of the loaded collection
\* ------------------------------------------------------------------------
\* the current-phase name as a function of the phases alone
PhaseOf(phases) ==
    IF phases = <<>> THEN ""
    ELSE IF OpenPhases(phases) # {}
         THEN phases[CHOOSE k \in OpenPhases(phases) :
                        \A j \in OpenPhases(phases) : k <= j].name
         ELSE phases[Len(phases)].name

\* C28: after every full load and every partial reload, the current-phase
\* name of each Track of the collection is determined by its current
\* plan_phases: the name of the first Active or Pending phase, the name of
\* the last phase when there is none, the empty string without phases.
C28_PhaseIsFunctionOfPlan ==
    \A id \in DOMAIN tracks : tracks[id].phase = PhaseOf(tracks[id].plan_phases)

\* ------------------------------------------------------------------------
\* Specification of the partial reloads: after a full load, per-track files
\* are written or removed, the watcher delivers the batch that names them,
\* and the app handles it
\* ------------------------------------------------------------------------
ReloadDisks ==
    { [index |-> File("ok", ix), dirs |-> [id \in DirIds |->
           [json |-> j, yaml |-> File("absent", EmptyRaw), plan |-> p]]] :
        ix \in {IndexA, IndexB}, j \in JsonFiles, p \in PlanFiles }

TrackFilePath(id, name) == ConductorDir \o <<"tracks", id, name>>

\* per-track files that are rewritten with the content they had
TouchedPaths == { TrackFilePath("b", "plan.md"), TrackFilePath("c", "meta.yaml") }

\* the batches that name the written file p
BatchesNaming(p) ==
    {b \in SeqsUpTo({p} \union TouchedPaths, MaxAppBatch) : \E k \in 1..Len(b) : b[k] = p}

InitReload ==
    /\ pc = "reload_start"
    /\ disk \in ReloadDisks
    /\ tracks = <<>>
    /\ error_message = None
    /\ last = "new"
    /\ WatchIdle
    /\ PlanIdle /\ MergeIdle /\ IndexIdle /\ MetaIdle /\ StepIdle

\* App::run: the initial full load
ReloadInitialLoad ==
    /\ pc = "reload_start"
    /\ pc' = "reload_running"
    /\ load_tracks
    /\ UNCHANGED <<metaVars, stepVars, disk, planVars, mergeVars, indexVars, watchVars>>

\* a metadata.json, meta.yaml or plan.md of tracks/a is written or removed
\* and the watcher sends Event::FilesChanged with a batch that names it
WriteTrackFile ==
    /\ pc = "reload_running"
    /\ \E id \in DirIds :
          \/ \E f \in JsonFiles \ {disk.dirs[id].json} :
                /\ disk' = [disk EXCEPT !.dirs[id].json = f]
                /\ \E b \in BatchesNaming(TrackFilePath(id, "metadata.json")) :
                      batch' = Some(debounced_paths(b))
          \/ \E f \in YamlFiles \ {disk.dirs[id].yaml} :
                /\ disk' = [disk EXCEPT !.dirs[id].yaml = f]
                /\ \E b \in BatchesNaming(TrackFilePath(id, "meta.yaml")) :
                      batch' = Some(debounced_paths(b))
          \/ \E f \in PlanFiles \ {disk.dirs[id].plan} :
                /\ disk' = [disk EXCEPT !.dirs[id].plan = f]
                /\ \E b \in BatchesNaming(TrackFilePath(id, "plan.md")) :
                      batch' = Some(debounced_paths(b))
    /\ pc' = "reload_notified"
    /\ last' = "edit"
    /\ UNCHANGED <<metaVars, stepVars, tracks, error_message, fs_events, scope,
                   planVars, mergeVars, indexVars>>

\* a per-track file is rewritten with the content it had
TouchTrackFile ==
    /\ pc = "reload_running"
    /\ \E b \in SeqsUpTo(TouchedPaths, MaxAppBatch) \ {<<>>} :
          batch' = Some(debounced_paths(b))
    /\ pc' = "reload_notified"
    /\ last' = "edit"
    /\ UNCHANGED <<metaVars, stepVars, disk, tracks, error_message, fs_events, scope,
                   planVars, mergeVars, indexVars>>

\* App::handle_event, Event::FilesChanged(paths)
HandleFilesChanged ==
    /\ pc = "reload_notified"
    /\ LET sc == classify_changes(batch[1]) IN
          /\ scope' = Some(sc)
          /\ IF sc.kind = "Full"
             THEN load_tracks
             ELSE /\ tracks' = reload_listed(tracks, disk, sc.ids, 1)
                  /\ last' = "reload"
                  /\ UNCHANGED error_message
    /\ pc' = "reload_running"
    /\ batch' = None
    /\ UNCHANGED <<metaVars, stepVars, disk, fs_events, planVars, mergeVars, indexVars>>

NextReload ==
    ReloadInitialLoad \/ WriteTrackFile \/ TouchTrackFile \/ HandleFilesChanged

SpecReload == InitReload /\ [][NextReload]_vars

\* ------------------------------------------------------------------------
\* Claims on the partial reload
\* ------------------------------------------------------------------------
\* C27: after the full load and any sequence of batches of per-track files,
\* each handled by a partial reload, the collection equals the one a full
\* load of the files now on disk produces.
C27_PartialEqualsFull ==
    pc = "reload_running" => tracks = load_all_tracks(disk).val

ListedIds == {scope'[1].ids[k] : k \in 1..Len(scope'[1].ids)}

\* C29: a partial reload neither adds nor removes an identity and changes
\* no Track whose identity is not in the list; a listed identity that is
\* not in the collection creates no Track.
C29_PartialReloadFrame ==
    [][ (pc = "reload_notified" /\ pc' = "reload_running"
            /\ scope'[1].kind = "Tracks") =>
            /\ DOMAIN tracks' = DOMAIN tracks
            /\ \A id \in DOMAIN tracks : id \notin ListedIds => tracks'[id] = tracks[id]
            /\ \A id \in ListedIds : id \notin DOMAIN tracks => id \notin DOMAIN tracks' ]_vars

\* a reload of the list c, a: the collection still has the tracks a and b
\* only, and the Track a has the plan written since the load
C29_Witness ==
    /\ pc = "reload_running" /\ last = "reload"
    /\ scope = Some(ScopeTracks(<<"c", "a">>))
    /\ DOMAIN tracks = {"a", "b"}
    /\ disk.dirs["a"].plan = File("ok", PlanOpen)
    /\ tracks["a"].tasks_total = 3

\* ------------------------------------------------------------------------
\* Specification of one full load, step by step: load_all_tracks reads the
\* index, walks its map in key order merging metadata and plan, then walks
\* it again normalizing, and App::load_tracks stores the result
\* ------------------------------------------------------------------------
\* iteration order of the BTreeMap over the identities of the indexes
IdOrder == <<"a", "b">>

in_order(S) == LET Has(id) == id \in S IN SelectSeq(IdOrder, Has)

LoadStep(op, id) == [op |-> op, id |-> id]

\* a load that normalizes each track right after its own merges
RECURSIVE load_schedule_normalize_each(_)
load_schedule_normalize_each(ids) ==
    IF ids = <<>> THEN <<>>
    ELSE << LoadStep("metadata", Head(ids)), LoadStep("plan", Head(ids)),
            LoadStep("normalize", Head(ids)) >>
         \o load_schedule_normalize_each(Tail(ids))

\* the body of the first loop, for each track in turn
RECURSIVE merge_steps(_)
merge_steps(ids) ==
    IF ids = <<>> THEN <<>>
    ELSE << LoadStep("metadata", Head(ids)), LoadStep("plan", Head(ids)) >>
         \o merge_steps(Tail(ids))

\* the two loops of load_all_tracks over the tracks of the index
load_schedule(ids) ==
    merge_steps(ids) \o [k \in 1..Len(ids) |-> LoadStep("normalize", ids[k])]

Logged(step, called) == [op |-> step.op, id |-> step.id, called |-> called]

InitLoadSteps ==
    /\ pc = "steps_start"
    /\ disk \in LoadDisks
    /\ tracks = <<>>
    /\ error_message = None
    /\ last = "new"
    /\ PlanIdle /\ MergeIdle /\ IndexIdle /\ WatchIdle /\ MetaIdle /\ StepIdle

\* parse_index(conductor_dir)?, and the Err arm of App::load_tracks
ReadIndexStep ==
    /\ pc = "steps_start"
    /\ LET r == read_index(disk) IN
       IF r.ok
       THEN /\ load_map' = r.val
            /\ load_steps' = load_schedule(in_order(DOMAIN r.val))
            /\ pc' = "steps_running"
            /\ UNCHANGED <<error_message, last>>
       ELSE /\ error_message' = Some(r.val)
            /\ last' = "load_failed"
            /\ pc' = "steps_done"
            /\ UNCHANGED <<load_map, load_steps>>
    /\ UNCHANGED <<load_log, disk, tracks, metaVars, planVars, mergeVars, indexVars,
                   watchVars>>

\* first loop: the metadata of one track
MetadataStep ==
    /\ pc = "steps_running"
    /\ load_steps # <<>> /\ Head(load_steps).op = "metadata"
    /\ LET id == Head(load_steps).id
           r == parse_metadata(track_dir(disk, id))
       IN /\ load_map' = [load_map EXCEPT ![id] = load_metadata(@, track_dir(disk, id))]
          /\ load_log' = Append(load_log, Logged(Head(load_steps), r.ok /\ r.val # None))
    /\ load_steps' = Tail(load_steps)
    /\ UNCHANGED <<pc, appVars, metaVars, planVars, mergeVars, indexVars, watchVars>>

\* first loop: the plan of one track
PlanStep ==
    /\ pc = "steps_running"
    /\ load_steps # <<>> /\ Head(load_steps).op = "plan"
    /\ LET id == Head(load_steps).id
           dir == track_dir(disk, id)
       IN /\ load_map' = [load_map EXCEPT ![id] = load_plan(@, dir)]
          /\ load_log' = Append(load_log,
                 Logged(Head(load_steps), dir.plan.state # "absent" /\ parse_plan(dir.plan).ok))
    /\ load_steps' = Tail(load_steps)
    /\ UNCHANGED <<pc, appVars, metaVars, planVars, mergeVars, indexVars, watchVars>>

\* second loop: the normalization of one track
NormalizeStep ==
    /\ pc = "steps_running"
    /\ load_steps # <<>> /\ Head(load_steps).op = "normalize"
    /\ LET id == Head(load_steps).id
       IN /\ load_map' = [load_map EXCEPT ![id] = normalize_if_complete(@)]
          /\ load_log' = Append(load_log,
                 Logged(Head(load_steps), load_map[id].status = "Complete"))
    /\ load_steps' = Tail(load_steps)
    /\ UNCHANGED <<pc, appVars, metaVars, planVars, mergeVars, indexVars, watchVars>>

\* Ok(tracks), and the Ok arm of App::load_tracks
ReturnStep ==
    /\ pc = "steps_running"
    /\ load_steps = <<>>
    /\ tracks' = load_map
    /\ last' = "load"
    /\ pc' = "steps_done"
    /\ UNCHANGED <<disk, error_message, stepVars, metaVars, planVars, mergeVars,
                   indexVars, watchVars>>

NextLoadSteps ==
    ReadIndexStep \/ MetadataStep \/ PlanStep \/ NormalizeStep \/ ReturnStep

SpecLoadSteps == InitLoadSteps /\ [][NextLoadSteps]_vars

\* the step by step load returns what load_all_tracks returns
StepsAgreeWithLoad ==
    pc = "steps_done" =>
        /\ last = "load" => tracks = load_all_tracks(disk).val
        /\ last = "load_failed" => ~load_all_tracks(disk).ok

\* positions of the log where the step op of the track id was taken
StepsOf(op, id) ==
    {k \in 1..Len(load_log) : load_log[k].op = op /\ load_log[k].id = id}

\* C23: in a full load the metadata step of a track comes before its plan
\* step, and when the normalization pass reaches any track the metadata
\* step and the plan step of every track of the load have been taken.
C23_MergesBeforeNormalization ==
    \A k \in 1..Len(load_log) :
        LET s == load_log[k] IN
        /\ s.op = "plan" => \E j \in StepsOf("metadata", s.id) : j < k
        /\ s.op = "metadata" => \A j \in StepsOf("plan", s.id) : k < j
        /\ s.op = "normalize" =>
               \A id \in DOMAIN load_map :
                   /\ \E j \in StepsOf("metadata", id) : j < k
                   /\ \E j \in StepsOf("plan", id) : j < k

\* a finished load of two tracks in which merge_metadata and merge_plan
\* were called for the track b and mark_all_tasks_complete for the track a
C23_Witness ==
    /\ pc = "steps_done" /\ last = "load"
    /\ DOMAIN tracks = {"a", "b"}
    /\ Len(load_log) = 6
    /\ \E k \in StepsOf("metadata", "b") : load_log[k].called
    /\ \E k \in StepsOf("plan", "b") : load_log[k].called
    /\ \E k \in StepsOf("normalize", "a") : load_log[k].called
====
